---- MODULE Spec2Model ----
(***************************************************************************)
(* A model of foldersync (src/main.py): FileSync mirrors a source          *)
(* directory tree into a replica directory tree, one reconciliation cycle  *)
(* (run_sync) after another, inside the polling loop of sync().            *)
(*                                                                         *)
(* One file system `fs` holds both trees.  A path is a sequence of         *)
(* component names, so "s/r/s" is <<"s", "r", "s">>; the text operations    *)
(* of the program on paths (join, relpath, str.replace) act on these       *)
(* sequences component by component.                                       *)
(***************************************************************************)
EXTENDS Integers, Sequences, FiniteSets, TLC

\* ---------------------------------------------------------------- bounds

\* Deepest entry of an initial tree, counted in components below its root.
MaxDepth == 2
\* Most entries an initial tree holds below its root.
MaxNodes == 2
\* The same for the wide specification, which starts from larger trees.
WideNodes == 3
\* File contents are the numbers 0..MaxContent.
MaxContent == 1

\* Entry names, in the order a directory listing returns them.
NameSeq == <<"r", "s">>
Names == {NameSeq[i] : i \in 1..Len(NameSeq)}
Contents == 0..MaxContent

\* The two positional arguments of main(): FileSync(args.source, args.replica).
SourceRoot == <<"s">>
ReplicaRoot == <<"r">>

\* ---------------------------------------------------------------- nodes

\* The file system maps each path that exists to what it holds.
DirNode == [kind |-> "dir", data |-> 0]
FileNode(c) == [kind |-> "file", data |-> c]

\* ---------------------------------------------------------------- paths

join(a, b) == a \o b

Parent(p) == SubSeq(p, 1, Len(p) - 1)

Basename(p) == p[Len(p)]

IsPrefix(p, q) == Len(p) <= Len(q) /\ SubSeq(q, 1, Len(p)) = p

Suffix(p, q) == SubSeq(q, Len(p) + 1, Len(q))

\* os.path.relpath(path, start) for a path below start ("." is <<>>).
relpath(path, start) == Suffix(start, path)

\* str.replace(old, new): every non-overlapping occurrence, left to right.
RECURSIVE replace(_, _, _)
replace(str, old, new) ==
    IF Len(str) < Len(old) \/ Len(old) = 0 THEN str
    ELSE IF SubSeq(str, 1, Len(old)) = old
         THEN new \o replace(Suffix(old, str), old, new)
         ELSE <<Head(str)>> \o replace(Tail(str), old, new)

\* ---------------------------------------------------------------- file system

KindAt(f, p) == IF p \in DOMAIN f THEN f[p].kind ELSE "none"

exists(f, p) == KindAt(f, p) # "none"

is_dir(f, p) == KindAt(f, p) = "dir"

is_file(f, p) == KindAt(f, p) = "file"

\* os.scandir(dir) filtered by kind: the names, in listing order.
ListNames(f, dir, kind) ==
    SelectSeq(NameSeq, LAMBDA n : KindAt(f, join(dir, <<n>>)) = kind)

\* The listing names of the sequence, each joined to the directory.
JoinEach(dir, names) == [i \in 1..Len(names) |-> join(dir, <<names[i]>>)]

Range(s) == {s[i] : i \in 1..Len(s)}

\* The tree below root: each relative path with what it holds.
TreeOf(f, root) ==
    {<<relpath(p, root), f[p]>> : p \in {q \in DOMAIN f : IsPrefix(root, q) /\ q # root}}

FilesOf(f, root) == {e \in TreeOf(f, root) : e[2].kind = "file"}

\* f with path p holding node n.
Put(f, p, n) == [q \in DOMAIN f \cup {p} |-> IF q = p THEN n ELSE f[q]]

\* f without the paths of the set gone.
Without(f, gone) == [q \in DOMAIN f \ gone |-> f[q]]

\* ---------------------------------------------------------------- initial trees

\* A tree by relative path; <<>> is its root.
EmptyTree == Put(<<>>, <<>>, DirNode)
MissingTree == <<>>

NewNodes == {DirNode} \cup {FileNode(c) : c \in Contents}

\* The places of a tree where one more entry fits.
Free(t) ==
    {q \in {join(d, <<n>>) : d \in DOMAIN t, n \in Names} :
        /\ q \notin DOMAIN t
        /\ t[Parent(q)].kind = "dir"
        /\ Len(q) <= MaxDepth}

\* One more entry in a directory of a tree, in every way.
Grow(T) == T \cup UNION {{Put(t, q, e) : q \in Free(t), e \in NewNodes} : t \in T}

RECURSIVE GrowN(_)
GrowN(k) == IF k = 0 THEN {EmptyTree} ELSE Grow(GrowN(k - 1))

\* Every tree of at most k entries, and the root that does not exist.
Trees(k) == GrowN(k) \cup {MissingTree}

Mount(st, rt) ==
    [p \in {join(SourceRoot, q) : q \in DOMAIN st} \cup {join(ReplicaRoot, q) : q \in DOMAIN rt} |->
        IF IsPrefix(SourceRoot, p)
        THEN st[relpath(p, SourceRoot)]
        ELSE rt[relpath(p, ReplicaRoot)]]

\* ---------------------------------------------------------------- library calls

\* hashlib.md5 over the whole content: a digest of fixed width, so distinct
\* contents can share a digest.  DigestSpace is the number of digests.
DigestSpace == 2
get_hash(c) == c % DigestSpace

\* shutil.copytree(src, dst): os.makedirs(dst) creates dst and its missing
\* ancestors, then every entry below src is copied below dst.
copytree(f, src, dst) ==
    LET copied == {join(dst, Suffix(src, q)) : q \in {r \in DOMAIN f : IsPrefix(src, r)}}
        made == {SubSeq(dst, 1, k) : k \in 1..(Len(dst) - 1)} \ DOMAIN f
    IN  [q \in DOMAIN f \cup copied \cup made |->
            IF q \in copied THEN f[join(src, Suffix(dst, q))]
            ELSE IF q \in made THEN DirNode
            ELSE f[q]]

\* copytree raises when src is no directory, when dst exists already
\* (FileExistsError) or when an ancestor of dst is a regular file.
copytree_raises(f, src, dst) ==
    \/ ~is_dir(f, src)
    \/ exists(f, dst)
    \/ \E k \in 1..(Len(dst) - 1) : is_file(f, SubSeq(dst, 1, k))

\* shutil.rmtree(dst): dst and everything below it.
rmtree(f, dst) == Without(f, {q \in DOMAIN f : IsPrefix(dst, q)})

rmtree_raises(f, dst) == ~is_dir(f, dst)

\* shutil.copy2(src, dst): when dst is a directory the file goes inside it.
copy2_target(f, src, dst) ==
    IF is_dir(f, dst) THEN join(dst, <<Basename(src)>>) ELSE dst

copy2(f, src, dst) == Put(f, copy2_target(f, src, dst), f[src])

copy2_raises(f, src, dst) ==
    \/ ~is_file(f, src)
    \/ ~is_dir(f, Parent(copy2_target(f, src, dst)))
    \/ is_dir(f, copy2_target(f, src, dst))

\* os.remove(dst): a regular file only.
remove(f, dst) == Without(f, {dst})

remove_raises(f, dst) == ~is_file(f, dst)

\* ---------------------------------------------------------------- operations of a level

\* One pending call of run_sync's current level, in program order.
Op(op, src, dst, rel) == [op |-> op, src |-> src, dst |-> dst, rel |-> rel]

Record(msg, kind, rel) == [msg |-> msg, kind |-> kind, rel |-> rel]

\* FileSync.folder_sync: the copytree and rmtree calls its two loops make.
folder_sync(source_list, replica_list) ==
    LET new == SelectSeq(source_list, LAMBDA folder : folder \notin Range(replica_list))
        stale == SelectSeq(replica_list, LAMBDA folder : folder \notin Range(source_list))
    IN  [i \in 1..Len(new) |->
            Op("copytree", join(SourceRoot, new[i]), join(ReplicaRoot, new[i]), new[i])]
        \o
        [i \in 1..Len(stale) |->
            Op("rmtree", <<>>, join(ReplicaRoot, stale[i]), stale[i])]

\* content_sync with the two roots of lines 94-100 swapped: a file that
\* differs is copied from the replica over the source.
content_sync_swapped(source_list, replica_list) ==
    LET stale == SelectSeq(replica_list, LAMBDA file : file \notin Range(source_list))
    IN  [i \in 1..Len(source_list) |->
            Op(IF source_list[i] \notin Range(replica_list) THEN "copy2" ELSE "compare",
               join(ReplicaRoot, source_list[i]), join(SourceRoot, source_list[i]),
               source_list[i])]
        \o
        [i \in 1..Len(stale) |->
            Op("remove", <<>>, join(ReplicaRoot, stale[i]), stale[i])]

\* FileSync.content_sync: a copy2 for a file the replica listing lacks, a
\* digest comparison for one it holds, then a remove for each stale file.
content_sync(source_list, replica_list) ==
    LET stale == SelectSeq(replica_list, LAMBDA file : file \notin Range(source_list))
    IN  [i \in 1..Len(source_list) |->
            Op(IF source_list[i] \notin Range(replica_list) THEN "copy2" ELSE "compare",
               join(SourceRoot, source_list[i]), join(ReplicaRoot, source_list[i]),
               source_list[i])]
        \o
        [i \in 1..Len(stale) |->
            Op("remove", <<>>, join(ReplicaRoot, stale[i]), stale[i])]

\* The two calls of lines 147-148 in the other order: files first.
LevelOps_files_first(f, source_dir, replica_dir) ==
    LET relative_dir == relpath(source_dir, SourceRoot)
        replica_sub_files == JoinEach(relative_dir, ListNames(f, replica_dir, "file"))
        source_files_path == JoinEach(relative_dir, ListNames(f, source_dir, "file"))
        replica_sub_dirs == JoinEach(relative_dir, ListNames(f, replica_dir, "dir"))
        source_dir_path == JoinEach(relative_dir, ListNames(f, source_dir, "dir"))
    IN  content_sync(source_files_path, replica_sub_files)
        \o folder_sync(source_dir_path, replica_sub_dirs)

\* run_sync, lines 139-148: the listings of replica_dir and of source_dir,
\* keyed by relative path, handed to folder_sync and then content_sync.
LevelOps(f, source_dir, replica_dir) ==
    LET relative_dir == relpath(source_dir, SourceRoot)
        replica_sub_files == JoinEach(relative_dir, ListNames(f, replica_dir, "file"))
        source_files_path == JoinEach(relative_dir, ListNames(f, source_dir, "file"))
        replica_sub_dirs == JoinEach(relative_dir, ListNames(f, replica_dir, "dir"))
        source_dir_path == JoinEach(relative_dir, ListNames(f, source_dir, "dir"))
    IN  folder_sync(source_dir_path, replica_sub_dirs)
        \o content_sync(source_files_path, replica_sub_files)

\* Does the call raise on the file system as it is (no permission involved)?
OpRaises(f, o) ==
    CASE o.op = "shortcut" -> copytree_raises(f, o.src, o.dst)
      [] o.op = "scandir"  -> ~is_dir(f, o.dst)
      [] o.op = "copytree" -> copytree_raises(f, o.src, o.dst)
      [] o.op = "rmtree"   -> rmtree_raises(f, o.dst)
      [] o.op = "copy2"    -> copy2_raises(f, o.src, o.dst)
      [] o.op = "compare"  -> ~is_file(f, o.src) \/ ~is_file(f, o.dst)
      [] o.op = "remove"   -> remove_raises(f, o.dst)

Differs(f, o) == get_hash(f[o.src].data) # get_hash(f[o.dst].data)

\* The file system after the call.
OpEffect(f, o) ==
    CASE o.op = "shortcut" -> copytree(f, o.src, o.dst)
      [] o.op = "scandir"  -> f
      [] o.op = "copytree" -> copytree(f, o.src, o.dst)
      [] o.op = "rmtree"   -> rmtree(f, o.dst)
      [] o.op = "copy2"    -> copy2(f, o.src, o.dst)
      [] o.op = "compare"  -> IF Differs(f, o) THEN copy2(f, o.src, o.dst) ELSE f
      [] o.op = "remove"   -> remove(f, o.dst)

\* What print_and_log records right after the call.
OpLog(f, o) ==
    CASE o.op = "shortcut" -> <<Record("copied", "Folder", o.rel)>>
      [] o.op = "scandir"  -> <<>>
      [] o.op = "copytree" -> <<Record("copied", "Folder", o.rel)>>
      [] o.op = "rmtree"   -> <<Record("removed", "Folder", o.rel)>>
      [] o.op = "copy2"    -> <<Record("copied", "File", o.rel)>>
      [] o.op = "compare"  -> IF Differs(f, o) THEN <<Record("copied", "File", o.rel)>> ELSE <<>>
      [] o.op = "remove"   -> <<Record("removed", "File", o.rel)>>

\* ---------------------------------------------------------------- state

VARIABLES
    fs,       \* the file system: absolute path -> node
    pc,       \* where the program is
    logger,   \* has initialize_logger run?
    counter,  \* sync's local `counter`
    todo,     \* os.walk: source directories still to yield, next first
    ops,      \* calls of the current level still to make, next first
    log,      \* print_and_log records since the current cycle began
    exc,      \* the exception raised last, "none" before any
    exit,     \* <<>> while the process runs, <<code>> once it has ended
    pre,      \* the file system as the current cycle found it
    last,     \* how the previous cycle ended: "none", "ok" or "denied"
    streak    \* cycles in a row, up to the previous one, that were denied

vars == <<fs, pc, logger, counter, todo, ops, log, exc, exit, pre, last, streak>>

InitFrom(T) ==
    /\ fs \in {Mount(st, rt) : st \in T, rt \in T}
    /\ pc = "start"
    /\ logger = FALSE
    /\ counter = 0
    /\ todo = <<>>
    /\ ops = <<>>
    /\ log = <<>>
    /\ exc = "none"
    /\ exit = <<>>
    /\ pre = fs
    /\ last = "none"
    /\ streak = 0

Init == InitFrom(Trees(MaxNodes))

WideInit == InitFrom(Trees(WideNodes))

\* ---------------------------------------------------------------- construction

\* A guard that looks at args[:1] only.
location_check_first_only(f, args) == exists(f, args[1])

\* location_check.inner: exists() on the first two arguments.
location_check(f, args) == \A i \in 1..2 : exists(f, args[i])

\* FileSync(source, replica, log, time): the decorator's check, then
\* __init__ with initialize_logger; a failed check raises NotADirectoryError
\* to main(), which catches nothing.
FileSync ==
    /\ pc = "start"
    /\ IF location_check(fs, <<SourceRoot, ReplicaRoot>>)
       THEN /\ logger' = TRUE
            /\ pc' = "constructed"
            /\ UNCHANGED <<exc, exit>>
       ELSE /\ exc' = "NotADirectoryError"
            /\ pc' = "crashed"
            /\ exit' = <<1>>
            /\ UNCHANGED logger
    /\ UNCHANGED <<fs, counter, todo, ops, log, pre, last, streak>>

\* sync(), line 156.
sync ==
    /\ pc = "constructed"
    /\ counter' = 0
    /\ pc' = "loop"
    /\ UNCHANGED <<fs, logger, todo, ops, log, exc, exit, pre, last, streak>>

\* ---------------------------------------------------------------- the loop

\* The retry budget of `while counter < 3`.
Budget == 3

\* The loop test written `counter <= 3`: one more cycle is granted.
WhileTest_le ==
    /\ pc = "loop"
    /\ IF counter <= Budget
       THEN /\ pc' = "walk"
            /\ todo' = <<SourceRoot>>
            /\ ops' = <<>>
            /\ log' = <<>>
            /\ pre' = fs
            /\ UNCHANGED exit
       ELSE /\ pc' = "returned"
            /\ exit' = <<0>>
            /\ UNCHANGED <<todo, ops, log, pre>>
    /\ UNCHANGED <<fs, logger, counter, exc, last, streak>>

\* Line 158 with the call of run_sync: os.walk starts at the source root.
\* When the test fails sync() returns, main() returns, the process ends.
WhileTest ==
    /\ pc = "loop"
    /\ IF counter < Budget
       THEN /\ pc' = "walk"
            /\ todo' = <<SourceRoot>>
            /\ ops' = <<>>
            /\ log' = <<>>
            /\ pre' = fs
            /\ UNCHANGED exit
       ELSE /\ pc' = "returned"
            /\ exit' = <<0>>
            /\ UNCHANGED <<todo, ops, log, pre>>
    /\ UNCHANGED <<fs, logger, counter, exc, last, streak>>

\* os.walk(top, topdown=True) yields a directory and afterwards walks its
\* sub-directories in listing order; a path it cannot list yields nothing.
walk_children(f, source_dir) == JoinEach(source_dir, ListNames(f, source_dir, "dir"))

\* The walk with a `continue` after the whole-tree copy: a level whose
\* replica directory was missing is not listed.
VisitDir_continue ==
    /\ pc = "walk"
    /\ ops = <<>>
    /\ todo # <<>>
    /\ LET source_dir == Head(todo)
           relative_dir == relpath(source_dir, SourceRoot)
           replica_dir == replace(source_dir, SourceRoot, ReplicaRoot)
       IN  IF is_dir(fs, source_dir)
           THEN /\ todo' = walk_children(fs, source_dir) \o Tail(todo)
                /\ ops' = IF ~exists(fs, replica_dir)
                          THEN <<Op("shortcut", source_dir, replica_dir, relative_dir)>>
                          ELSE <<Op("scandir", source_dir, replica_dir, relative_dir)>>
           ELSE /\ todo' = Tail(todo)
                /\ ops' = <<>>
    /\ UNCHANGED <<fs, pc, logger, counter, log, exc, exit, pre, last, streak>>

\* run_sync, lines 131-137: the next directory of the walk, its replica
\* directory by str.replace, and the whole-tree copy when that is missing.
\* The listings of lines 139-145 follow as the call "scandir".
VisitDir ==
    /\ pc = "walk"
    /\ ops = <<>>
    /\ todo # <<>>
    /\ LET source_dir == Head(todo)
           relative_dir == relpath(source_dir, SourceRoot)
           replica_dir == replace(source_dir, SourceRoot, ReplicaRoot)
       IN  IF is_dir(fs, source_dir)
           THEN /\ todo' = walk_children(fs, source_dir) \o Tail(todo)
                /\ ops' = (IF ~exists(fs, replica_dir)
                           THEN <<Op("shortcut", source_dir, replica_dir, relative_dir)>>
                           ELSE <<>>)
                          \o <<Op("scandir", source_dir, replica_dir, relative_dir)>>
           ELSE /\ todo' = Tail(todo)
                /\ ops' = <<>>
    /\ UNCHANGED <<fs, pc, logger, counter, log, exc, exit, pre, last, streak>>

\* An inner clause `except OSError`: every failure of a cycle is retried.
handler_except_OSError(e, in_run_sync) ==
    IF in_run_sync /\ e \in {"PermissionError", "OSError"} THEN "retry"
    ELSE IF e = "KeyboardInterrupt" THEN "stop"
    ELSE "propagate"

\* An inner bare `except:`: an interrupt inside run_sync is taken for a
\* failed cycle and seen only during the sleep.
handler_bare_except(e, in_run_sync) ==
    IF in_run_sync THEN "retry"
    ELSE IF e = "KeyboardInterrupt" THEN "stop"
    ELSE "propagate"

\* The try statements of sync() around the place an exception is raised:
\* "retry" is the clause of line 161, "stop" the clause of line 165,
\* "propagate" leaves sync() with the exception.
handler(e, in_run_sync) ==
    IF in_run_sync /\ e = "PermissionError" THEN "retry"
    ELSE IF e = "KeyboardInterrupt" THEN "stop"
    ELSE "propagate"

\* Lines 161-164: the clause `except PermissionError`, through to the sleep.
except_PermissionError ==
    /\ log' = Append(log, Record("Permission denied...", "", <<>>))
    /\ counter' = counter + 1
    /\ pc' = "sleep"
    /\ last' = "denied"
    /\ streak' = streak + 1
    /\ UNCHANGED exit

\* The clause without its print_and_log call.
except_KeyboardInterrupt_silent ==
    /\ pc' = "stopped"
    /\ exit' = <<0>>
    /\ UNCHANGED <<log, counter, last, streak>>

\* Lines 165-167: the clause `except KeyboardInterrupt` with sys.exit(0).
except_KeyboardInterrupt ==
    /\ log' = Append(log, Record("Stopping file sync...", "", <<>>))
    /\ pc' = "stopped"
    /\ exit' = <<0>>
    /\ UNCHANGED <<counter, last, streak>>

\* No clause matches: the exception leaves sync() and main(), and the
\* interpreter ends the process with a traceback and status 1.
uncaught ==
    /\ pc' = "crashed"
    /\ exit' = <<1>>
    /\ UNCHANGED <<log, counter, last, streak>>

\* An exception e raised at the current place, with the file system left as
\* f, up to the end of the clause that catches it.
Raise(e, f) ==
    /\ exc' = e
    /\ fs' = f
    /\ LET h == handler(e, pc = "walk")
       IN  CASE h = "retry" -> except_PermissionError
             [] h = "stop" -> except_KeyboardInterrupt
             [] h = "propagate" -> uncaught
    /\ UNCHANGED <<logger, todo, ops, pre>>

\* The next call of the level: it raises on a file system that does not
\* allow it, else it acts and its record is logged.  The listing call puts
\* the calls of folder_sync and content_sync in its place.
Call ==
    /\ pc = "walk"
    /\ ops # <<>>
    /\ LET o == Head(ops)
       IN  IF OpRaises(fs, o)
           THEN Raise("OSError", fs)
           ELSE /\ fs' = OpEffect(fs, o)
                /\ log' = log \o OpLog(fs, o)
                /\ ops' = (IF o.op = "scandir"
                           THEN LevelOps(fs, o.src, o.dst)
                           ELSE <<>>) \o Tail(ops)
                /\ UNCHANGED <<pc, logger, counter, todo, exc, exit, pre, last, streak>>

\* The operating system refuses the next call: PermissionError, or another
\* OSError (the entry vanished, the disk is full).
Refused(e) ==
    /\ pc = "walk"
    /\ ops # <<>>
    /\ Raise(e, fs)

\* A loop that restores the budget when a cycle succeeds.
Return_resets ==
    /\ pc = "walk"
    /\ ops = <<>>
    /\ todo = <<>>
    /\ pc' = "sleep"
    /\ last' = "ok"
    /\ streak' = 0
    /\ counter' = 0
    /\ UNCHANGED <<fs, logger, todo, ops, log, exc, exit, pre>>

\* The walk is exhausted: run_sync returns and sync() reaches line 164.
Return ==
    /\ pc = "walk"
    /\ ops = <<>>
    /\ todo = <<>>
    /\ pc' = "sleep"
    /\ last' = "ok"
    /\ streak' = 0
    /\ UNCHANGED <<fs, logger, counter, todo, ops, log, exc, exit, pre>>

\* sleep(self.interval) returns.
Sleep ==
    /\ pc = "sleep"
    /\ pc' = "loop"
    /\ UNCHANGED <<fs, logger, counter, todo, ops, log, exc, exit, pre, last, streak>>

\* Ctrl-C while sync() is inside its outer try statement.
KeyboardInterrupt ==
    /\ pc \in {"loop", "walk", "sleep"}
    /\ Raise("KeyboardInterrupt", fs)

Next ==
    \/ FileSync
    \/ sync
    \/ WhileTest
    \/ VisitDir
    \/ Call
    \/ Refused("PermissionError")
    \/ Refused("OSError")
    \/ Return
    \/ Sleep
    \/ KeyboardInterrupt

Spec == Init /\ [][Next]_vars

WideSpec == WideInit /\ [][Next]_vars

\* ---------------------------------------------------------------- properties

\* A cycle has just completed without raising.
CycleCompleted == pc = "sleep" /\ last = "ok"

SourcePath(p) == join(SourceRoot, p)
ReplicaPath(p) == join(ReplicaRoot, p)

\* C1 (convergence): when a call of run_sync completes without raising, the
\* replica holds exactly the relative file paths the source holds, each with
\* the content it has in the source.
C1_Convergence ==
    CycleCompleted => FilesOf(fs, ReplicaRoot) = FilesOf(fs, SourceRoot)

\* C2 (idempotence): the run that follows a completed run, with nothing
\* changed in between, makes no copy and no delete and logs no action.
C2_Idempotence ==
    (pc = "walk" /\ last = "ok") => (fs = pre /\ log = <<>>)

\* C3 (creation): whatever the source held and the replica lacked when a
\* cycle began is in the replica, identical, when the cycle has completed.
C3_Creation ==
    CycleCompleted =>
        \A e \in TreeOf(pre, SourceRoot) :
            ~exists(pre, ReplicaPath(e[1]))
                => (exists(fs, ReplicaPath(e[1])) /\ fs[ReplicaPath(e[1])] = e[2])

\* C4 (deletion): whatever the replica held and the source lacked when a
\* cycle began is gone from the replica when the cycle has completed.
C4_Deletion ==
    CycleCompleted =>
        \A e \in TreeOf(pre, ReplicaRoot) :
            ~exists(pre, SourcePath(e[1])) => ~exists(fs, ReplicaPath(e[1]))

\* The next call of content_sync is for a file that both trees hold at the
\* same relative path, and this step makes the call without raising.
FileCallMade ==
    /\ pc = "walk" /\ ops # <<>>
    /\ Head(ops).op \in {"copy2", "compare"}
    /\ is_file(fs, Head(ops).src) /\ is_file(fs, Head(ops).dst)
    /\ Head(ops).src = SourcePath(Head(ops).rel)
    /\ Head(ops).dst = ReplicaPath(Head(ops).rel)
    /\ pc' = "walk" /\ ops' = Tail(ops)

\* C5 (change detection): for a file both trees hold at the same relative
\* path, content_sync copies the source file over the replica file, and
\* logs it, exactly when the two digests differ.
C5_ChangeDetection ==
    [][FileCallMade =>
         /\ (log' # log) <=> Differs(fs, Head(ops))
         /\ Differs(fs, Head(ops)) => fs'[Head(ops).dst] = fs[Head(ops).src]
         /\ ~Differs(fs, Head(ops)) => fs' = fs]_vars

\* C6 (permission-failure budget): the loop gives up only after Budget
\* cycles in a row have raised a permission failure.
C6_Budget ==
    pc = "returned" => streak >= Budget

\* C7 (only permission failures are intercepted): a failure of a cycle that
\* is no permission failure ends the process with an error at once: the
\* retry counter keeps its value, nothing is logged, there is no sleep and
\* no further cycle, and nothing ever happens after it.
C7_OnlyPermissionIntercepted ==
    [][/\ (pc = "walk" /\ exc' # exc /\ exc' \notin {"PermissionError", "KeyboardInterrupt"})
            => (pc' = "crashed" /\ exit' = <<1>> /\ counter' = counter /\ log' = log)
       /\ pc # "crashed"]_vars

C7_Crashed ==
    pc = "crashed" /\ exc = "OSError" /\ exit = <<1>> /\ pre # fs

\* The walk of the current cycle has not finished.
MidWalk == pc = "walk" /\ (ops # <<>> \/ todo # <<>>)

\* C8 (cancellation only between cycles), as claimed: the loop never goes
\* to Stopped from the middle of a cycle's walk.
C8_CancellationBetweenCycles ==
    [][pc' = "stopped" => ~MidWalk]_vars

\* C8 as amended: an interrupt that arrives in the middle of a walk stops
\* the loop there: what the cycle has applied stays, what it has left to do
\* is never done.
C8_CancellationAnywhere ==
    [][(MidWalk /\ exc' = "KeyboardInterrupt")
          => (pc' = "stopped" /\ fs' = fs /\ ops' = ops /\ todo' = todo)]_vars

C8_StoppedMidCycle ==
    pc = "stopped" /\ last = "none" /\ ops # <<>> /\ fs # pre

ShutdownRecords(l) ==
    Cardinality({i \in 1..Len(l) : l[i].msg = "Stopping file sync..."})

\* C9 (clean shutdown): an interrupt delivered while the loop runs takes it
\* to Stopped with exactly one shutdown record and exit code 0, changing no
\* file; once stopped, nothing happens any more.
C9_CleanShutdown ==
    [][/\ (pc \in {"loop", "walk", "sleep"} /\ exc' = "KeyboardInterrupt")
            => (pc' = "stopped" /\ exit' = <<0>> /\ ShutdownRecords(log') = 1 /\ fs' = fs)
       /\ pc # "stopped"]_vars

C9_Stopped ==
    pc = "stopped" /\ exc = "KeyboardInterrupt" /\ last = "ok" /\ exit = <<0>>

\* C10 (configuration guard): with the source path or the replica path
\* missing, the constructor call ends in NotADirectoryError: no object, no
\* logger, no cycle, and both trees as they were.
C10_ConfigurationGuard ==
    (~exists(fs, SourceRoot) \/ ~exists(fs, ReplicaRoot))
        => /\ pc \in {"start", "crashed"}
           /\ logger = FALSE
           /\ fs = pre /\ log = <<>> /\ todo = <<>> /\ ops = <<>>
           /\ pc = "crashed" => (exc = "NotADirectoryError" /\ exit = <<1>>)

C10_Rejected ==
    pc = "crashed" /\ exc = "NotADirectoryError" /\ exists(fs, SourceRoot) /\ ~exists(fs, ReplicaRoot)

\* The action records of a log: those of copies and removals.
Actions(l) == SelectSeq(l, LAMBDA r : r.kind \in {"Folder", "File"})

\* How many action records name the relative path p, and how many name a
\* path inside p.
RecordsFor(l, p) == Cardinality({i \in 1..Len(l) : l[i].kind # "" /\ l[i].rel = p})
RecordsInside(l, p) ==
    Cardinality({i \in 1..Len(l) : l[i].kind # "" /\ l[i].rel # p /\ IsPrefix(p, l[i].rel)})

\* The sub-folders of source, by relative path, that the replica lacked
\* entirely when the cycle began, their parent being there.
MissingFolders ==
    {p \in {e[1] : e \in TreeOf(pre, SourceRoot)} :
        /\ is_dir(pre, SourcePath(p))
        /\ ~exists(pre, ReplicaPath(p))
        /\ is_dir(pre, ReplicaPath(Parent(p)))}

\* C11 (subtree shortcut): a source sub-folder entirely missing from the
\* replica is in the replica with its whole content after one cycle, and
\* the cycle logs exactly one action for it and none for anything inside.
C11_SubtreeShortcut ==
    CycleCompleted =>
        \A p \in MissingFolders :
            /\ TreeOf(fs, ReplicaPath(p)) = TreeOf(pre, SourcePath(p))
            /\ RecordsFor(log, p) = 1
            /\ RecordsInside(log, p) = 0

\* The copy and delete operations the call o performs on f: one, except
\* that a listing and a comparison of equal digests perform none.
Performed(f, o) ==
    IF o.op = "scandir" \/ (o.op = "compare" /\ ~Differs(f, o)) THEN 0 ELSE 1

\* This step makes the next call of the level without raising.
CallMade == pc = "walk" /\ ops # <<>> /\ pc' = "walk"

\* This step ends a cycle that found the replica equal to the source.
UnchangedCycleEnds ==
    /\ pc = "walk" /\ pc' = "sleep" /\ last' = "ok"
    /\ TreeOf(pre, ReplicaRoot) = TreeOf(pre, SourceRoot)

\* C12 (action logging): every call adds as many action records as it
\* performs copy and delete operations, none for a comparison of equal
\* digests, and a cycle over unchanged trees ends with nothing logged.
C12_ActionLogging ==
    [][/\ CallMade => Len(Actions(log')) = Len(Actions(log)) + Performed(fs, Head(ops))
       /\ UnchangedCycleEnds => log' = <<>>]_vars

\* This step makes, without raising, the whole-tree copy of lines 135-137.
ShortcutMade == CallMade /\ Head(ops).op = "shortcut"

C14_PathCorrespondence ==
    \A i \in 1..Len(ops) :
        ops[i].op \in {"shortcut", "scandir"} =>
            /\ ops[i].src = SourcePath(ops[i].rel)
            /\ ops[i].dst = ReplicaPath(ops[i].rel)

\* This step ends a cycle with the record of a permission failure.
DeniedStep == log' = Append(log, Record("Permission denied...", "", <<>>))

\* C15 (the retry counter is never reset): the counter starts at 0, grows
\* by exactly 1 in a step that ends a cycle with a permission failure and
\* keeps its value in every other step, the end of a successful cycle
\* included, so it never decreases.
C15_CounterNeverReset ==
    [][/\ pc = "constructed" => counter' = 0
       /\ pc # "constructed" => counter' = IF DeniedStep THEN counter + 1 ELSE counter]_vars

\* A cycle has succeeded after two cycles were denied, and the counter
\* still holds 2.
C15_CountKept ==
    pc = "sleep" /\ last = "ok" /\ counter = 2

\* C16 (budget exhaustion): the counter never exceeds Budget; the cycle in
\* which it reaches Budget goes to the sleep; from then on, unless an
\* interrupt arrives, the sleep returns, the loop test fails and sync()
\* returns: no further cycle starts, nothing is logged, no file changes, no
\* exception is raised and the exit code is 0; after the return nothing
\* happens any more.
C16_BudgetExhaustion ==
    [][/\ counter' <= Budget
       /\ (counter # Budget /\ counter' = Budget) => pc' = "sleep"
       /\ (counter = Budget /\ exc' # "KeyboardInterrupt") =>
            /\ pc = "sleep" => pc' = "loop"
            /\ pc = "loop" => pc' = "returned"
            /\ pc' # "walk"
            /\ log' = log /\ fs' = fs /\ exc' = exc
       /\ pc' = "returned" =>
            (counter' = Budget /\ exit' = <<0>> /\ ShutdownRecords(log') = 0)
       /\ pc # "returned"]_vars

\* sync() has returned after the third permission failure.
C16_Returned ==
    /\ pc = "returned" /\ counter = Budget /\ last = "denied"
    /\ exc = "PermissionError" /\ exit = <<0>>

\* This step completes, without failure, the cycle that follows a cycle
\* cut short by a permission failure.
RecoveryCycleEnds == pc = "walk" /\ last = "denied" /\ pc' = "sleep" /\ last' = "ok"

\* C17 (self-correction after a failed cycle): a permission failure rolls
\* nothing back, and when the cycle after it completes without failure the
\* replica tree equals the source tree.
C17_SelfCorrection ==
    [][/\ DeniedStep => fs' = fs
       /\ RecoveryCycleEnds => TreeOf(fs', ReplicaRoot) = TreeOf(fs', SourceRoot)]_vars

\* The directory level, by relative path, that the call o belongs to.
LevelOf(o) == IF o.op \in {"shortcut", "scandir"} THEN o.rel ELSE Parent(o.rel)

\* The place of a call in the order of one level: the whole-tree copy and
\* the listing, folder creations, folder removals, file copies and
\* overwrites, file removals.
Rank(o) ==
    CASE o.op \in {"shortcut", "scandir"} -> 0
      [] o.op = "copytree" -> 1
      [] o.op = "rmtree" -> 2
      [] o.op \in {"copy2", "compare"} -> 3
      [] o.op = "remove" -> 4

\* C18 (top-down ordering): the calls still to make all belong to one
\* level and stand in the order folder creations, folder removals, file
\* copies and overwrites, file removals; no ancestor of that level, nor
\* the level itself, is still to be visited by the walk.
C18_TopDownOrdering ==
    /\ \A i, j \in 1..Len(ops) :
          /\ LevelOf(ops[i]) = LevelOf(ops[j])
          /\ i < j => Rank(ops[i]) <= Rank(ops[j])
    /\ \A i \in 1..Len(ops), k \in 1..Len(todo) :
          ~IsPrefix(relpath(todo[k], SourceRoot), LevelOf(ops[i]))

\* Below the root, a level has a folder action and a file action to make.
C18_FolderBeforeFile ==
    /\ pc = "walk" /\ Len(ops) >= 2
    /\ LevelOf(Head(ops)) # <<>>
    /\ Head(ops).op \in {"copytree", "rmtree"}
    /\ ops[Len(ops)].op \in {"copy2", "compare", "remove"}

\* The relative paths that, when the cycle began, held a directory in one
\* tree and a regular file in the other.
Mismatches ==
    {p \in {e[1] : e \in TreeOf(pre, SourceRoot)} :
        \/ is_dir(pre, SourcePath(p)) /\ is_file(pre, ReplicaPath(p))
        \/ is_file(pre, SourcePath(p)) /\ is_dir(pre, ReplicaPath(p))}

\* C19 (kind mismatch): in a cycle that began with a name held as a
\* directory by one tree and as a regular file by the other, no call
\* raises by itself, and when the cycle has completed the replica holds
\* the name with the kind and the content it has in the source.
C19_KindMismatch ==
    /\ (pc = "walk" /\ ops # <<>> /\ Mismatches # {}) => ~OpRaises(fs, Head(ops))
    /\ CycleCompleted =>
          \A p \in Mismatches :
              /\ exists(fs, ReplicaPath(p))
              /\ fs[ReplicaPath(p)] = fs[SourcePath(p)]
              /\ TreeOf(fs, ReplicaPath(p)) = TreeOf(fs, SourcePath(p))

\* What the file system holds at the source root and below it.
SourceOf(f) == [p \in {q \in DOMAIN f : IsPrefix(SourceRoot, q)} |-> f[p]]

\* C20 (one-directional frame): at every point of a cycle, and after it
\* however it ended, the source root holds what it held when the cycle
\* began: no call creates, overwrites or deletes anything below it.
C20_SourceUntouched ==
    SourceOf(fs) = SourceOf(pre)

\* A cycle that had changed the replica was cut short by a permission
\* failure.
C20_FailedAfterChanges ==
    pc = "sleep" /\ last = "denied" /\ fs # pre /\ exists(fs, SourceRoot)

====
